---------------------------- MODULE Spec2Model ----------------------------
(***************************************************************************)
(* State-machine models of the four scripts of xbox-tools:                 *)
(*   unzip_1.py              the archive walker          (SpecUnzip)       *)
(*   scripts/convert.py      the audio -> WAV converter  (SpecConvert)     *)
(*   scripts/rename.py       the FATX file-name cleaner  (SpecRename)      *)
(*   scripts/flatten_to_root.py  the directory flattener (SpecFlatten)     *)
(* The scripts share no state; each specification leaves the variables of  *)
(* the other scripts untouched.                                            *)
(*                                                                         *)
(* A string is a sequence of one-character strings, a path is a sequence   *)
(* of path components (each a string), <<>> being the working directory.   *)
(***************************************************************************)
EXTENDS Integers, Sequences, FiniteSets, TLC

VARIABLES
    \* ---- unzip_1.py ----
    fs,              \* file path -> content
    dirs,            \* the directories that exist
    args,            \* [root, delete]: the parsed command line
    rarfile,         \* TRUE iff `import rarfile` succeeded (line 23-26)
    patoolib,        \* TRUE iff `import patoolib` succeeded (line 28-34)
    pc,              \* "idle" | "start" | "walk" | "done"
    stack,           \* os.walk: directories still to be listed
    dirpath,         \* os.walk: the directory being processed
    files,           \* the rest of sorted(files) of dirpath
    total_archives, total_files, errors,
    hist,            \* what happened to each file the loop body met
    fs0,             \* the tree the run started on (never written)
    \* ---- scripts/convert.py ----
    c_fs,            \* file name -> duration ffprobe reports (None: unknown)
    c_env,           \* [ffmpeg, ffprobe, root]: tools in PATH, root exists
    c_args,          \* [keep, overwrite, dry_run]
    c_pc,            \* "idle" | "start" | "loop" | "done"
    to_process,      \* the rest of the list of candidates
    converted, deleted, skipped, c_errors,
    c_hist,          \* what happened to each candidate
    \* ---- scripts/rename.py ----
    r_fs,            \* the names in the directory
    r_pc,            \* "idle" | "walk" | "loop" | "done"
    r_files,         \* the names os.walk listed and the loop has not met
    count,
    r_hist,          \* the renames made: [old, new]
    \* ---- scripts/flatten_to_root.py ----
    f_fs,            \* file path -> content
    f_dirs,          \* the directories that exist
    f_root,          \* os.path.abspath(root)
    f_pc,            \* "idle" | "start" | "walk" | "done"
    f_stack,         \* os.walk: directories still to be listed
    f_dirpath,       \* os.walk: the directory being processed
    f_files,         \* the files of f_dirpath the loop has not met
    total,
    f_fs0            \* the tree the run started on (never written)

uvars == <<fs, dirs, args, rarfile, patoolib, pc, stack, dirpath, files,
           total_archives, total_files, errors, hist, fs0>>
cvars == <<c_fs, c_env, c_args, c_pc, to_process, converted, deleted,
           skipped, c_errors, c_hist>>
rvars == <<r_fs, r_pc, r_files, count, r_hist>>
fvars == <<f_fs, f_dirs, f_root, f_pc, f_stack, f_dirpath, f_files, total,
           f_fs0>>

vars == <<uvars, cvars, rvars, fvars>>

\* a script that is not run
IdleUnzip ==
    /\ fs = <<>> /\ dirs = {} /\ args = <<>> /\ rarfile = FALSE
    /\ patoolib = FALSE /\ pc = "idle" /\ stack = <<>> /\ dirpath = <<>>
    /\ files = <<>> /\ total_archives = 0 /\ total_files = 0 /\ errors = 0
    /\ hist = <<>> /\ fs0 = <<>>
IdleConvert ==
    /\ c_fs = <<>> /\ c_env = <<>> /\ c_args = <<>> /\ c_pc = "idle"
    /\ to_process = <<>> /\ converted = 0 /\ deleted = 0 /\ skipped = 0
    /\ c_errors = 0 /\ c_hist = <<>>
IdleRename ==
    /\ r_fs = {} /\ r_pc = "idle" /\ r_files = {} /\ count = 0 /\ r_hist = <<>>
IdleFlatten ==
    /\ f_fs = <<>> /\ f_dirs = {} /\ f_root = <<>> /\ f_pc = "idle"
    /\ f_stack = <<>> /\ f_dirpath = <<>> /\ f_files = {} /\ total = 0
    /\ f_fs0 = <<>>

-----------------------------------------------------------------------------
(* Strings *)

Digits == {"0", "1", "2", "3", "4", "5", "6", "7", "8", "9"}

\* the printable ASCII characters, from code point 32 on (the quotes
\* and the backslash, which no name of the model holds, by their names)
Ascii == <<" ", "!", "dquote", "#", "$", "%", "&", "quote", "(", ")", "*", "+", ",",
           "-", ".", "/", "0", "1", "2", "3", "4", "5", "6", "7", "8", "9",
           ":", ";", "<", "=", ">", "?", "@",
           "A", "B", "C", "D", "E", "F", "G", "H", "I", "J", "K", "L", "M",
           "N", "O", "P", "Q", "R", "S", "T", "U", "V", "W", "X", "Y", "Z",
           "[", "backslash", "]", "^", "_", "backtick",
           "a", "b", "c", "d", "e", "f", "g", "h", "i", "j", "k", "l", "m",
           "n", "o", "p", "q", "r", "s", "t", "u", "v", "w", "x", "y", "z",
           "{", "|", "}", "~">>

\* ord(c) for every character of the table
OrdTable ==
    [c \in { Ascii[i] : i \in 1..Len(Ascii) } |->
        31 + CHOOSE i \in 1..Len(Ascii) : Ascii[i] = c]

\* ord(c)
Ord(c) == OrdTable[c]

Upper  == { Ascii[i] : i \in 34..59 }
Letters == Upper \cup { Ascii[i] : i \in 66..91 }

\* str.lower() of one character
LowerChar(c) == IF c \in Upper THEN Ascii[Ord(c) - 31 + 32] ELSE c

lower(s) == [i \in 1..Len(s) |-> LowerChar(s[i])]

endswith(s, suf) ==
    /\ Len(s) >= Len(suf)
    /\ SubSeq(s, Len(s) - Len(suf) + 1, Len(s)) = suf

startswith(s, pre) ==
    /\ Len(s) >= Len(pre)
    /\ SubSeq(s, 1, Len(pre)) = pre

\* s < t for Python strings
RECURSIVE StrLess(_, _)
StrLess(s, t) ==
    IF t = <<>> THEN FALSE
    ELSE IF s = <<>> THEN TRUE
    ELSE IF s[1] # t[1] THEN Ord(s[1]) < Ord(t[1])
    ELSE StrLess(Tail(s), Tail(t))

\* sorted(S) for a set of strings
RECURSIVE sorted(_)
sorted(S) ==
    IF S = {} THEN <<>>
    ELSE LET m == CHOOSE x \in S : \A y \in S \ {x} : StrLess(x, y)
         IN  <<m>> \o sorted(S \ {m})

\* str(i) for i >= 0
RECURSIVE str(_)
str(i) ==
    LET d == <<"0", "1", "2", "3", "4", "5", "6", "7", "8", "9">>[(i % 10) + 1]
    IN  IF i < 10 THEN <<d>> ELSE str(i \div 10) \o <<d>>

\* the index of the last "." of s, 0 when there is none (str.rfind + 1)
RECURSIVE rfind(_, _)
rfind(s, c) ==
    IF s = <<>> THEN 0
    ELSE IF s[Len(s)] = c THEN Len(s)
    ELSE rfind(SubSeq(s, 1, Len(s) - 1), c)

\* os.path.splitext of a file name: the extension starts at the last dot,
\* unless only dots precede it (genericpath._splitext)
splitext(p) ==
    LET dot == rfind(p, ".")
    IN  IF dot > 0 /\ \E i \in 1..(dot - 1) : p[i] # "."
        THEN <<SubSeq(p, 1, dot - 1), SubSeq(p, dot, Len(p))>>
        ELSE <<p, <<>>>>

-----------------------------------------------------------------------------
(* unzip_1.py: names and file contents *)

S_zip    == <<".", "z", "i", "p">>
S_rar    == <<".", "r", "a", "r">>
S_part   == <<".", "p", "a", "r", "t">>
S_7z     == <<".", "7", "z">>
S_tar    == <<".", "t", "a", "r">>
S_gz     == <<".", "g", "z">>
S_bz2    == <<".", "b", "z", "2">>
S_xz     == <<".", "x", "z">>
S_file   == <<"f", "i", "l", "e">>

\* a regular file, a readable archive, an archive no backend can open
Data(v)       == [k |-> "data", v |-> v, members |-> <<>>]
Archive(v, m) == [k |-> "arc",  v |-> v, members |-> m]
Corrupt(v)    == [k |-> "bad",  v |-> v, members |-> <<>>]
Missing       == [k |-> "none", v |-> 0, members |-> <<>>]

Member(path, v) == [path |-> path, dir |-> FALSE, v |-> v]
DirEntry(path)  == [path |-> path, dir |-> TRUE,  v |-> 0]

Content(f, p) == IF p \in DOMAIN f THEN f[p] ELSE Missing

\* open(path, "wb") and the copy: the file is created or replaced
write(f, p, c) == [q \in DOMAIN f \cup {p} |-> IF q = p THEN c ELSE f[q]]

\* os.remove
remove(f, p) == [q \in DOMAIN f \ {p} |-> f[q]]

\* os.path.exists: a file or a directory
exists(f, d, p) == p \in DOMAIN f \/ p \in d

\* os.path.basename of a member's path
basename(path) == IF path = <<>> THEN <<>> ELSE path[Len(path)]

\* the directories a path lies in: os.makedirs(..., exist_ok=True)
Parents(p) == { SubSeq(p, 1, i) : i \in 0..(Len(p) - 1) }

-----------------------------------------------------------------------------
(* unzip_1.py: first-volume detection *)

\* re.search(r"\.part0*1\.rar$", f): the index where the match starts, 0 if none
search_part01_rar(f) ==
    LET tail == <<"1">> \o S_rar
        p    == SubSeq(f, 1, Len(f) - Len(tail))
        ok(z) == /\ z <= Len(p)
                 /\ \A i \in (Len(p) - z + 1)..Len(p) : p[i] = "0"
                 /\ endswith(SubSeq(p, 1, Len(p) - z), S_part)
    IN  IF endswith(f, tail) /\ \E z \in 0..Len(p) : ok(z)
        THEN Len(p) - (CHOOSE z \in 0..Len(p) : ok(z)) - Len(S_part) + 1
        ELSE 0

\* re.search(r"\.part\d+\.rar$", f)
search_partN_rar(f) ==
    /\ endswith(f, S_rar)
    /\ LET p == SubSeq(f, 1, Len(f) - Len(S_rar))
       IN  \E z \in 1..Len(p) :
              /\ \A i \in (Len(p) - z + 1)..Len(p) : p[i] \in Digits
              /\ endswith(SubSeq(p, 1, Len(p) - z), S_part)

\* re.search(r"\.r\d{2}$", f)
search_rNN(f) ==
    /\ Len(f) >= 4
    /\ f[Len(f) - 3] = "." /\ f[Len(f) - 2] = "r"
    /\ f[Len(f) - 1] \in Digits /\ f[Len(f)] \in Digits

\* re.search(r"\.(7z|tar|gz|bz2|xz)$", low)
search_other(low) ==
    \E suf \in {S_7z, S_tar, S_gz, S_bz2, S_xz} : endswith(low, suf)

\* the path whose absence line 43-44 warns about (output only)
next_part(filename, dp) ==
    LET f == lower(filename)
    IN  dp \o <<SubSeq(f, 1, search_part01_rar(f) - 1)
                \o S_part \o <<"2">> \o S_rar>>

\* is_first_rar_volume with r"\.part1\.rar$" for its first pattern
is_first_rar_volume_unpadded(filename) ==
    LET f == lower(filename)
    IN  IF endswith(f, S_part \o <<"1">> \o S_rar) THEN TRUE
        ELSE IF search_partN_rar(f) THEN FALSE
        ELSE IF search_rNN(f) THEN FALSE
        ELSE endswith(f, S_rar)

is_first_rar_volume(filename) ==
    LET f == lower(filename)
    IN  IF search_part01_rar(f) > 0 THEN TRUE
        ELSE IF search_partN_rar(f) THEN FALSE
        ELSE IF search_rNN(f) THEN FALSE
        ELSE endswith(f, S_rar)

-----------------------------------------------------------------------------
(* unzip_1.py: extraction *)

\* the loop of unique_path, from suffix i on
RECURSIVE unique_path_from(_, _, _, _, _, _)
unique_path_from(f, d, dp, base, ext, i) ==
    LET path == dp \o <<base \o <<"_">> \o str(i) \o ext>>
    IN  IF ~exists(f, d, path) THEN path
        ELSE unique_path_from(f, d, dp, base, ext, i + 1)

unique_path(f, d, dp, filename) ==
    LET path == dp \o <<filename>>
        be   == splitext(filename)
    IN  IF ~exists(f, d, path) THEN path
        ELSE unique_path_from(f, d, dp, be[1], be[2], 1)

\* the member loop of extract_zip and extract_rar: flatten, never overwrite.
\* failAt = k > 0: the k-th member written raises an I/O error after its
\* output file was opened (created empty).
RECURSIVE extract_members(_, _, _, _, _, _, _)
extract_members(f, d, members, i, dest_dir, n, failAt) ==
    IF i > Len(members) THEN [fs |-> f, n |-> n, raised |-> FALSE]
    ELSE IF members[i].dir
    THEN extract_members(f, d, members, i + 1, dest_dir, n, failAt)
    ELSE LET b        == basename(members[i].path)
             name     == IF b = <<>> THEN S_file ELSE b
             out_path == unique_path(f, d, dest_dir, name)
         IN  IF n + 1 = failAt
             THEN [fs |-> write(f, out_path, Data(0)), n |-> n, raised |-> TRUE]
             ELSE extract_members(write(f, out_path, Data(members[i].v)), d,
                                  members, i + 1, dest_dir, n + 1, failAt)

extract_zip(f, d, zip_path, dest_dir, failAt) ==
    LET c == Content(f, zip_path)
    IN  IF c.k # "arc" THEN [fs |-> f, n |-> 0, raised |-> TRUE]
        ELSE extract_members(f, d, c.members, 1, dest_dir, 0, failAt)

\* what `unrar x -o+`, py7zr's extractall and patool do: every member at its
\* own path below dest_dir, replacing what is there
RECURSIVE extract_full(_, _, _, _, _)
extract_full(f, d, members, i, dest_dir) ==
    IF i > Len(members) THEN [fs |-> f, dirs |-> d]
    ELSE LET p == dest_dir \o members[i].path
         IN  IF members[i].dir
             THEN extract_full(f, d \cup Parents(p) \cup {p}, members, i + 1, dest_dir)
             ELSE extract_full(write(f, p, Data(members[i].v)), d \cup Parents(p),
                               members, i + 1, dest_dir)

\* unrar: "absent" (subprocess.run raises), "fails" (non-zero exit, ignored
\* by check=False), "works"
extract_rar(f, d, rar_path, dest_dir, failAt, unrar) ==
    LET c   == Content(f, rar_path)
        pri == IF c.k # "arc" THEN [fs |-> f, n |-> 0, raised |-> TRUE]
               ELSE extract_members(f, d, c.members, 1, dest_dir, 0, failAt)
    IN  IF ~pri.raised
        THEN [fs |-> pri.fs, dirs |-> d, n |-> pri.n, raised |-> FALSE, done |-> TRUE]
        ELSE IF unrar = "absent"
        THEN [fs |-> pri.fs, dirs |-> d, n |-> pri.n, raised |-> TRUE, done |-> FALSE]
        ELSE IF unrar = "works" /\ c.k = "arc"
        THEN LET x == extract_full(pri.fs, d, c.members, 1, dest_dir)
             IN  [fs |-> x.fs, dirs |-> x.dirs, n |-> pri.n, raised |-> FALSE,
                  done |-> TRUE]
        ELSE [fs |-> pri.fs, dirs |-> d, n |-> pri.n, raised |-> FALSE, done |-> FALSE]

\* py7zr: TRUE iff the import and the extraction succeed for a readable
\* archive; patool: "none" (patoolib is None), "fails", "works"
extract_any(f, d, archive_path, dest_dir, py7zr, patool) ==
    LET c    == Content(f, archive_path)
        ext  == lower(basename(archive_path))
        full == extract_full(f, d, c.members, 1, dest_dir)
    IN  IF endswith(ext, S_7z) /\ py7zr /\ c.k = "arc"
        THEN [fs |-> full.fs, dirs |-> full.dirs, raised |-> FALSE]
        ELSE IF patool = "none" THEN [fs |-> f, dirs |-> d, raised |-> TRUE]
        ELSE IF patool = "works" /\ c.k = "arc"
        THEN [fs |-> full.fs, dirs |-> full.dirs, raised |-> FALSE]
        ELSE [fs |-> f, dirs |-> d, raised |-> TRUE]

-----------------------------------------------------------------------------
(* unzip_1.py: main *)

\* os.path.abspath(".") whatever the argument
abspath_ignoring_argument(p) == <<>>

\* os.path.abspath: relative to the working directory, <<>>
abspath(p) == p

\* the names of the files of directory dp
ListFiles(f, dp) ==
    { q[Len(q)] : q \in { r \in DOMAIN f : Len(r) = Len(dp) + 1
                                           /\ SubSeq(r, 1, Len(dp)) = dp } }

\* the sub-directories of dp
ListDirs(d, dp) ==
    { r \in d : Len(r) = Len(dp) + 1 /\ SubSeq(r, 1, Len(dp)) = dp }

\* every order of a set: the order os.scandir returns entries in is arbitrary
RECURSIVE Orders(_)
Orders(S) ==
    IF S = {} THEN {<<>>}
    ELSE UNION { { <<x>> \o o : o \in Orders(S \ {x}) } : x \in S }

\* the number of members of an archive that are files
NFiles(c) == Cardinality({ i \in 1..Len(c.members) : ~c.members[i].dir })

\* one record per file the loop body met:
\*   act      the branch taken: "zip", "rar", "other", "volume", "ignored"
\*   extracted  every member was extracted by some backend
\*   raised   an exception reached the handler of line 185
\*   removed  os.remove(full) was called and succeeded
\*   was      the file's content when the loop body met it
Event(path, act, extracted, raised, removed) ==
    [path |-> path, act |-> act, extracted |-> extracted, raised |-> raised,
     removed |-> removed, was |-> Content(fs, path)]

IsRarFamily(low) == endswith(low, S_rar) \/ search_rNN(low)

\* lines 145-146
Start ==
    /\ pc = "start"
    /\ UNCHANGED <<cvars, rvars, fvars>>
    /\ pc' = "walk"
    /\ stack' = <<abspath(args.root)>>
    /\ total_archives' = 0 /\ total_files' = 0 /\ errors' = 0
    /\ UNCHANGED <<fs, dirs, args, rarfile, patoolib, dirpath, files, hist, fs0>>

\* os.walk yields the next directory (line 148); a directory that cannot
\* be listed is passed over (onerror is None)
EnterDir ==
    /\ pc = "walk" /\ files = <<>> /\ stack # <<>>
    /\ UNCHANGED <<cvars, rvars, fvars>>
    /\ LET top == Head(stack)
       IN  IF top \in dirs
           THEN /\ dirpath' = top
                /\ files' = sorted(ListFiles(fs, top))
                /\ \E o \in Orders(ListDirs(dirs, top)) :
                       stack' = o \o Tail(stack)
           ELSE /\ stack' = Tail(stack)
                /\ UNCHANGED <<dirpath, files>>
    /\ UNCHANGED <<fs, dirs, args, rarfile, patoolib, pc,
                   total_archives, total_files, errors, hist, fs0>>

\* lines 154-162
ProcessZip ==
    /\ pc = "walk" /\ files # <<>>
    /\ UNCHANGED <<cvars, rvars, fvars>>
    /\ LET fname == Head(files)
           low   == lower(fname)
           full  == dirpath \o <<fname>>
       IN  /\ endswith(low, S_zip)
           /\ \E failAt \in 0..NFiles(Content(fs, full)) :
                LET r == extract_zip(fs, dirs, full, dirpath, failAt)
                    del == ~r.raised /\ args.delete
                IN  /\ fs' = IF del THEN remove(r.fs, full) ELSE r.fs
                    /\ total_files' = IF r.raised THEN total_files
                                      ELSE total_files + r.n
                    /\ errors' = IF r.raised THEN errors + 1 ELSE errors
                    /\ hist' = Append(hist,
                         Event(full, "zip", ~r.raised, r.raised, del))
    /\ total_archives' = total_archives + 1
    /\ files' = Tail(files)
    /\ UNCHANGED <<dirs, args, rarfile, patoolib, pc, stack, dirpath, fs0>>

\* lines 164-166: a continuation volume
SkipVolume ==
    /\ pc = "walk" /\ files # <<>>
    /\ UNCHANGED <<cvars, rvars, fvars>>
    /\ LET fname == Head(files)
           low   == lower(fname)
       IN  /\ ~endswith(low, S_zip)
           /\ IsRarFamily(low) /\ rarfile
           /\ ~is_first_rar_volume(fname)
           /\ hist' = Append(hist,
                 Event(dirpath \o <<fname>>, "volume", FALSE, FALSE, FALSE))
    /\ files' = Tail(files)
    /\ UNCHANGED <<fs, dirs, args, rarfile, patoolib, pc, stack, dirpath,
                   total_archives, total_files, errors, fs0>>

\* lines 164-174
ProcessRar ==
    /\ pc = "walk" /\ files # <<>>
    /\ UNCHANGED <<cvars, rvars, fvars>>
    /\ LET fname == Head(files)
           low   == lower(fname)
           full  == dirpath \o <<fname>>
       IN  /\ ~endswith(low, S_zip)
           /\ IsRarFamily(low) /\ rarfile
           /\ is_first_rar_volume(fname)
           /\ \E failAt \in 0..NFiles(Content(fs, full)),
                 unrar \in {"absent", "fails", "works"} :
                LET r == extract_rar(fs, dirs, full, dirpath, failAt, unrar)
                    del == ~r.raised /\ args.delete
                IN  /\ fs' = IF del THEN remove(r.fs, full) ELSE r.fs
                    /\ dirs' = r.dirs
                    /\ total_files' = IF r.raised THEN total_files
                                      ELSE total_files + r.n
                    /\ errors' = IF r.raised THEN errors + 1 ELSE errors
                    /\ hist' = Append(hist,
                         Event(full, "rar", r.done, r.raised, del))
    /\ total_archives' = total_archives + 1
    /\ files' = Tail(files)
    /\ UNCHANGED <<args, rarfile, patoolib, pc, stack, dirpath, fs0>>

\* lines 176-183
ProcessOther ==
    /\ pc = "walk" /\ files # <<>>
    /\ UNCHANGED <<cvars, rvars, fvars>>
    /\ LET fname == Head(files)
           low   == lower(fname)
           full  == dirpath \o <<fname>>
       IN  /\ ~endswith(low, S_zip)
           /\ ~(IsRarFamily(low) /\ rarfile)
           /\ search_other(low)
           /\ \E py7zr \in BOOLEAN,
                 patool \in IF patoolib THEN {"fails", "works"} ELSE {"none"} :
                LET r == extract_any(fs, dirs, full, dirpath, py7zr, patool)
                    del == ~r.raised /\ args.delete
                IN  /\ fs' = IF del THEN remove(r.fs, full) ELSE r.fs
                    /\ dirs' = r.dirs
                    /\ total_files' = IF r.raised THEN total_files
                                      ELSE total_files + 1
                    /\ errors' = IF r.raised THEN errors + 1 ELSE errors
                    /\ hist' = Append(hist,
                         Event(full, "other", ~r.raised, r.raised, del))
    /\ total_archives' = total_archives + 1
    /\ files' = Tail(files)
    /\ UNCHANGED <<args, rarfile, patoolib, pc, stack, dirpath, fs0>>

\* no branch of lines 154-183 applies
IgnoreFile ==
    /\ pc = "walk" /\ files # <<>>
    /\ UNCHANGED <<cvars, rvars, fvars>>
    /\ LET fname == Head(files)
           low   == lower(fname)
       IN  /\ ~endswith(low, S_zip)
           /\ ~(IsRarFamily(low) /\ rarfile)
           /\ ~search_other(low)
           /\ hist' = Append(hist,
                 Event(dirpath \o <<fname>>, "ignored", FALSE, FALSE, FALSE))
    /\ files' = Tail(files)
    /\ UNCHANGED <<fs, dirs, args, rarfile, patoolib, pc, stack, dirpath,
                   total_archives, total_files, errors, fs0>>

\* line 189
Summary ==
    /\ pc = "walk" /\ files = <<>> /\ stack = <<>>
    /\ UNCHANGED <<cvars, rvars, fvars>>
    /\ pc' = "done"
    /\ UNCHANGED <<fs, dirs, args, rarfile, patoolib, stack, dirpath, files,
                   total_archives, total_files, errors, hist, fs0>>

-----------------------------------------------------------------------------
(* unzip_1.py: the trees and command lines the walker is run on *)

N_a_txt        == <<"a", ".", "t", "x", "t">>
N_c_txt        == <<"c", ".", "t", "x", "t">>
N_a_zip        == <<"a", ".", "z", "i", "p">>
N_a_rar        == <<"a", ".", "r", "a", "r">>
N_a_part1_rar  == <<"a", ".", "p", "a", "r", "t", "1", ".", "r", "a", "r">>
N_a_part2_rar  == <<"a", ".", "p", "a", "r", "t", "2", ".", "r", "a", "r">>
N_a_part01_rar == <<"a", ".", "p", "a", "r", "t", "0", "1", ".", "r", "a", "r">>
N_A_PART10_RAR == <<"A", ".", "P", "A", "R", "T", "1", "0", ".", "R", "A", "R">>
N_a_r00        == <<"a", ".", "r", "0", "0">>
N_b_7z         == <<"b", ".", "7", "z">>
N_b_tar        == <<"b", ".", "t", "a", "r">>
N_s            == <<"s">>
N_d            == <<"d">>
N_nope         == <<"n", "o", "p", "e">>

\* the most files a tree holds
MaxFiles == 4

\* the files a tree may hold, and what each may contain
Menu == <<
    [path |-> <<N_a_txt>>,        is |-> {Data(1)}],
    [path |-> <<N_a_zip>>,        is |-> {Corrupt(2),
              Archive(2, <<DirEntry(<<N_d>>), Member(<<N_d, N_a_txt>>, 21),
                           Member(<<N_a_txt>>, 22)>>)}],
    [path |-> <<N_a_rar>>,        is |-> {Corrupt(3),
              Archive(3, <<Member(<<N_a_txt>>, 31)>>)}],
    [path |-> <<N_a_part1_rar>>,  is |-> {Archive(4, <<Member(<<N_c_txt>>, 41)>>)}],
    [path |-> <<N_a_part2_rar>>,  is |-> {Data(5)}],
    [path |-> <<N_a_r00>>,        is |-> {Data(6)}],
    [path |-> <<N_a_part01_rar>>, is |-> {Archive(7, <<Member(<<N_a_txt>>, 71)>>)}],
    [path |-> <<N_A_PART10_RAR>>, is |-> {Data(8)}],
    [path |-> <<N_b_7z>>,         is |-> {Corrupt(9),
              Archive(9, <<Member(<<N_a_txt>>, 91)>>)}],
    [path |-> <<N_s, N_b_tar>>,   is |-> {Archive(10, <<Member(<<N_c_txt>>, 101),
                            Member(<<N_a_txt>>, 102)>>)}],
    [path |-> <<N_s, N_c_txt>>,   is |-> {Data(11)}]
>>

\* the trees of at most k files chosen from Menu[i..]
RECURSIVE Trees(_, _)
Trees(i, k) ==
    IF i > Len(Menu) \/ k = 0 THEN { <<>> }
    ELSE Trees(i + 1, k)
         \cup { write(t, Menu[i].path, c) :
                    t \in Trees(i + 1, k - 1), c \in Menu[i].is }

InitUnzip ==
    /\ fs \in Trees(1, MaxFiles)
    /\ fs0 = fs
    /\ dirs = { <<>>, <<N_s>> }
    /\ args \in [root : { <<>>, <<N_nope>> }, delete : BOOLEAN]
    /\ rarfile \in BOOLEAN
    /\ patoolib \in BOOLEAN
    /\ pc = "start"
    /\ stack = <<>> /\ dirpath = <<>> /\ files = <<>>
    /\ total_archives = 0 /\ total_files = 0 /\ errors = 0
    /\ hist = <<>>
    /\ IdleConvert /\ IdleRename /\ IdleFlatten

NextUnzip ==
    \/ Start
    \/ EnterDir
    \/ ProcessZip
    \/ SkipVolume
    \/ ProcessRar
    \/ ProcessOther
    \/ IgnoreFile
    \/ Summary

SpecUnzip == InitUnzip /\ [][NextUnzip]_vars

-----------------------------------------------------------------------------
(* Claims about unzip_1.py *)

\* the event the step under way adds to hist
Met == hist'[Len(hist')]
Meets == Len(hist') = Len(hist) + 1
Attempts(e) == e.act \in {"zip", "rar", "other"}
NameOf(path) == path[Len(path)]
DirOf(path)  == SubSeq(path, 1, Len(path) - 1)

\* C1: every file that exists before an archive is extracted still exists
\* with the same content afterwards (only the archive itself may go, under
\* --delete), and every member of an extracted archive lands in a file of
\* its own that did not exist before: a colliding base name goes to a free
\* name_N, two members with one base name to two files.
C1_NeverOverwrites ==
    [][ Meets =>
          /\ \A q \in DOMAIN fs :
                \/ q \in DOMAIN fs' /\ fs'[q] = fs[q]
                \/ q = Met.path /\ Met.removed
          /\ (Attempts(Met) /\ Met.extracted) =>
                Cardinality(DOMAIN fs' \ DOMAIN fs) = NFiles(Met.was)
      ]_vars

\* C2: with --delete an archive is gone after it was processed iff its
\* extraction succeeded, and an archive whose extraction failed is still
\* there unchanged; without --delete no archive is removed.
C2_DeleteOnlyAfterSuccess ==
    \A i \in 1..Len(hist) :
        LET e == hist[i]
        IN  Attempts(e) =>
              IF args.delete
              THEN /\ e.extracted => e.removed /\ e.path \notin DOMAIN fs
                   /\ ~e.extracted => /\ ~e.removed
                                      /\ e.path \in DOMAIN fs
                                      /\ fs[e.path] = e.was
              ELSE ~e.removed /\ e.path \in DOMAIN fs

\* the decimal value of a string of digits
RECURSIVE DecVal(_)
DecVal(s) ==
    IF s = <<>> THEN 0
    ELSE 10 * DecVal(SubSeq(s, 1, Len(s) - 1)) + (Ord(s[Len(s)]) - 48)

\* the N of name.partN.rar (any case, any zero padding), -1 when the name
\* is not part-numbered: read off the last-but-one dotted field of the name
PartNumber(name) ==
    LET low   == lower(name)
        stem  == SubSeq(low, 1, Len(low) - 4)
        dot   == rfind(stem, ".")
        field == SubSeq(stem, dot + 1, Len(stem))
        num   == SubSeq(field, 5, Len(field))
    IN  IF /\ Len(low) > 4 /\ SubSeq(low, Len(low) - 3, Len(low)) = S_rar
           /\ dot > 0 /\ Len(field) > 4
           /\ SubSeq(field, 1, 4) = <<"p", "a", "r", "t">>
           /\ \A j \in 1..Len(num) : num[j] \in Digits
        THEN DecVal(num)
        ELSE -1

IsDotRar(name) ==
    LET low == lower(name)
    IN  Len(low) >= 4 /\ SubSeq(low, Len(low) - 3, Len(low)) = S_rar

IsLegacyVolume(name) ==
    LET low == lower(name)
    IN  /\ Len(low) >= 4 /\ low[Len(low) - 3] = "." /\ low[Len(low) - 2] = "r"
        /\ low[Len(low) - 1] \in Digits /\ low[Len(low)] \in Digits

\* a continuation volume by its name: .partN.rar with N > 1, or .rNN
IsContinuation(name) == PartNumber(name) > 1 \/ IsLegacyVolume(name)

\* the part-numbered siblings of a bare name.rar in the tree the run began on
HasNumberedSibling(path) ==
    \E q \in DOMAIN fs0 :
        /\ DirOf(q) = DirOf(path)
        /\ PartNumber(NameOf(q)) >= 0
        /\ LET a == lower(NameOf(path))
               b == lower(NameOf(q))
           IN  startswith(b, SubSeq(a, 1, Len(a) - 4) \o S_part)

\* continuation volumes are never opened, counted or deleted
ContinuationsUntouched ==
    /\ \A i \in 1..Len(hist) :
          IsContinuation(NameOf(hist[i].path)) =>
              ~Attempts(hist[i]) /\ ~hist[i].removed
    /\ \A q \in DOMAIN fs0 :
          IsContinuation(NameOf(q)) => q \in DOMAIN fs /\ fs[q] = fs0[q]
    /\ total_archives = Cardinality({ i \in 1..Len(hist) : Attempts(hist[i]) })

\* C3 as the specification states it: of the RAR family only first volumes
\* reach extract_rar, a bare name.rar only when it has no part-numbered
\* sibling, and continuation volumes are never opened, counted or deleted.
C3_OnlyFirstVolumes ==
    /\ \A i \in 1..Len(hist) :
          hist[i].act = "rar" =>
              \/ PartNumber(NameOf(hist[i].path)) = 1
              \/ /\ IsDotRar(NameOf(hist[i].path))
                 /\ PartNumber(NameOf(hist[i].path)) = -1
                 /\ ~HasNumberedSibling(hist[i].path)
    /\ ContinuationsUntouched

\* C3 as the code has it: with the RAR library present, a file of the RAR
\* family reaches extract_rar iff its name is name.partN.rar with N = 1 (any
\* zero padding) or a .rar name with no part number, whatever its siblings
\* are; continuation volumes are never opened, counted or deleted.
C3_FirstVolumesByName ==
    /\ \A i \in 1..Len(hist) :
          LET name == NameOf(hist[i].path)
              first == \/ PartNumber(name) = 1
                       \/ IsDotRar(name) /\ PartNumber(name) = -1
          IN  /\ hist[i].act = "rar" => first
              /\ (rarfile /\ first) => hist[i].act = "rar"
    /\ ContinuationsUntouched

\* C3: the four files of the specification's example were all met
C3_Witness ==
    /\ pc = "done" /\ rarfile
    /\ \E i, j, k, l \in 1..Len(hist) :
          /\ hist[i].path = <<N_a_rar>>       /\ hist[i].act = "rar"
          /\ hist[j].path = <<N_a_part1_rar>> /\ hist[j].act = "rar"
          /\ hist[k].path = <<N_a_part2_rar>> /\ hist[k].act = "volume"
          /\ hist[l].path = <<N_a_r00>>       /\ hist[l].act = "volume"

\* the branch of lines 154-183 a file name takes
Recognized(name) ==
    LET low == lower(name)
    IN  \/ endswith(low, S_zip)
        \/ IsRarFamily(low) /\ rarfile /\ is_first_rar_volume(name)
        \/ ~(IsRarFamily(low) /\ rarfile) /\ search_other(low)

\* the names of the archives attempted in directory dp, in the order met
AttemptedIn(dp) ==
    LET InDir(e) == Attempts(e) /\ DirOf(e.path) = dp
        sel == SelectSeq(hist, InDir)
    IN  [i \in 1..Len(sel) |-> NameOf(sel[i].path)]

\* the members of the archives whose extraction succeeded, up to event i
RECURSIVE MembersExtracted(_)
MembersExtracted(i) ==
    IF i = 0 THEN 0
    ELSE MembersExtracted(i - 1)
         + (IF Attempts(hist[i]) /\ hist[i].extracted
            THEN NFiles(hist[i].was) ELSE 0)

\* C4: a failure never stops the walk: at the summary every recognized
\* archive of every directory was attempted once, in sorted order, the error
\* count is the number of archives whose extraction failed and the files
\* count is the number of members of the archives that were extracted.
C4_EveryArchiveAttemptedAndCounted ==
    /\ errors = Cardinality({ i \in 1..Len(hist) :
                    Attempts(hist[i]) /\ ~hist[i].extracted })
    /\ (pc = "done" /\ args.root \in dirs) =>
        /\ \A dp \in dirs :
              AttemptedIn(dp) =
                  sorted({ NameOf(q) : q \in { r \in DOMAIN fs0 :
                              DirOf(r) = dp /\ Recognized(NameOf(r)) } })
        /\ total_files = MembersExtracted(Len(hist))

\* C5: an archive whose format has no backend (a first-volume .rar without
\* the RAR library; a 7z/tar/... archive without patool that py7zr did not
\* extract) is neither extracted nor deleted and counts as one error.
C5_NoBackendCountsAsError ==
    \A i \in 1..Len(hist) :
        LET e    == hist[i]
            name == NameOf(e.path)
            low  == lower(name)
            noBackend ==
                \/ ~rarfile /\ IsRarFamily(low) /\ is_first_rar_volume(name)
                \/ e.act = "other" /\ ~patoolib /\ ~e.extracted
        IN  noBackend =>
              /\ e.raised /\ ~e.extracted /\ ~e.removed
              /\ errors >= Cardinality({ j \in 1..i : hist[j].raised })
              /\ e.path \in DOMAIN fs /\ fs[e.path] = e.was

\* C6 as the specification states it: a root that does not exist is
\* reported as an error, and nothing is extracted or deleted.
C6_MissingRootReported ==
    (args.root \notin dirs /\ pc = "done") =>
        /\ errors >= 1
        /\ fs = fs0 /\ hist = <<>>

\* C6 as the code has it: a root that does not exist is reported by
\* nothing; no file is met, extracted or deleted, and the run goes straight
\* to a summary of zeros.
C6_MissingRootIsSilent ==
    args.root \notin dirs =>
        /\ fs = fs0 /\ hist = <<>> /\ files = <<>>
        /\ total_archives = 0 /\ total_files = 0 /\ errors = 0
        /\ pc = "walk" => stack \in { <<>>, <<args.root>> }

\* C6: the summary of a run on a missing root, in a tree that holds archives
C6_Witness ==
    /\ args.root \notin dirs /\ pc = "done"
    /\ \E q \in DOMAIN fs : Recognized(NameOf(q))

-----------------------------------------------------------------------------
(* scripts/convert.py *)

SUPPORTED_EXTS == {
    <<".", "m", "p", "3">>,
    <<".", "m", "4", "a">>,
    <<".", "a", "a", "c">>,
    <<".", "f", "l", "a", "c">>,
    <<".", "o", "g", "g">>,
    <<".", "o", "p", "u", "s">>,
    <<".", "w", "m", "a">>,
    <<".", "w", "v">>,
    <<".", "a", "i", "f">>,
    <<".", "a", "i", "f", "f">>,
    <<".", "a", "i", "f", "c">>,
    <<".", "m", "p", "2">>,
    <<".", "a", "c", "3">>,
    <<".", "m", "k", "a">>,
    <<".", "m", "k", "v">>,
    <<".", "m", "p", "4">>,
    <<".", "m", "4", "b">> }
SKIP_EXTS == { <<".", "w", "a", "v">> }
S_wav == <<".", "w", "a", "v">>

\* get_duration_seconds returns None when ffprobe fails or prints no number
None == -1

\* the longest duration of the model, in seconds
MaxDur == 3
Durations == {None} \cup 0..MaxDur

\* the tolerance of line 137, in seconds
TOLERANCE == 1

\* pathlib's PurePath.suffix of a file name
suffix(name) ==
    LET i == rfind(name, ".")
    IN  IF 1 < i /\ i < Len(name) THEN SubSeq(name, i, Len(name)) ELSE <<>>

\* PurePath.with_suffix
with_suffix(name, suf) ==
    SubSeq(name, 1, Len(name) - Len(suffix(name))) \o suf

\* ffprobe on a file that exists
get_duration_seconds(f, name) == f[name]

abs(x) == IF x < 0 THEN -x ELSE x

\* lines 91-99: the candidates of the scan
Candidates(f) ==
    { name \in DOMAIN f : /\ lower(suffix(name)) \notin SKIP_EXTS
                          /\ lower(suffix(name)) \in SUPPORTED_EXTS }

\* ffmpeg's run (lines 50-68): exit code rc; when it wrote the output, dst
\* exists afterwards with duration out
ffmpeg(f, dst, rc, wrote, out) ==
    LET g == IF wrote
             THEN [q \in DOMAIN f \cup {dst} |-> IF q = dst THEN out ELSE f[q]]
             ELSE f
    IN  [fs |-> g, ok |-> rc = 0 /\ dst \in DOMAIN g, rc |-> rc]

\* lines 133-140: the output's duration contradicts the input's
duration_mismatch(in_dur, out_dur) ==
    /\ in_dur # None /\ out_dur # None
    /\ abs(in_dur - out_dur) > TOLERANCE /\ out_dur > 0

CvEvent(src, outcome, in_dur, out_dur, rc, dst_exists, unlinked) ==
    [src |-> src, outcome |-> outcome, in_dur |-> in_dur, out_dur |-> out_dur,
     rc |-> rc, dst_exists |-> dst_exists, unlinked |-> unlinked]

\* lines 81-84
CvMissingTool ==
    /\ c_pc = "start"
    /\ ~(c_env.ffmpeg /\ c_env.ffprobe)
    /\ c_pc' = "done"
    /\ UNCHANGED <<c_fs, c_env, c_args, to_process, converted, deleted,
                   skipped, c_errors, c_hist>>
    /\ UNCHANGED <<uvars, rvars, fvars>>

\* lines 86-89
CvMissingRoot ==
    /\ c_pc = "start"
    /\ c_env.ffmpeg /\ c_env.ffprobe
    /\ ~c_env.root
    /\ c_pc' = "done"
    /\ UNCHANGED <<c_fs, c_env, c_args, to_process, converted, deleted,
                   skipped, c_errors, c_hist>>
    /\ UNCHANGED <<uvars, rvars, fvars>>

\* lines 91-107: rglob lists the tree in an arbitrary order
CvScan ==
    /\ c_pc = "start"
    /\ c_env.ffmpeg /\ c_env.ffprobe /\ c_env.root
    /\ to_process' \in Orders(Candidates(c_fs))
    /\ converted' = 0 /\ deleted' = 0 /\ skipped' = 0 /\ c_errors' = 0
    /\ c_pc' = "loop"
    /\ UNCHANGED <<c_fs, c_env, c_args, c_hist>>
    /\ UNCHANGED <<uvars, rvars, fvars>>

\* lines 112-115
CvSkipExisting ==
    /\ c_pc = "loop" /\ to_process # <<>>
    /\ LET src == Head(to_process)
           dst == with_suffix(src, S_wav)
       IN  /\ dst \in DOMAIN c_fs /\ ~c_args.overwrite
           /\ c_hist' = Append(c_hist,
                 CvEvent(src, "skip", None, None, None, TRUE, FALSE))
    /\ skipped' = skipped + 1
    /\ to_process' = Tail(to_process)
    /\ UNCHANGED <<c_fs, c_env, c_args, c_pc, converted, deleted, c_errors>>
    /\ UNCHANGED <<uvars, rvars, fvars>>

\* lines 117-125
CvDryRun ==
    /\ c_pc = "loop" /\ to_process # <<>>
    /\ LET src == Head(to_process)
           dst == with_suffix(src, S_wav)
       IN  /\ ~(dst \in DOMAIN c_fs /\ ~c_args.overwrite)
           /\ c_args.dry_run
           /\ c_hist' = Append(c_hist,
                 CvEvent(src, "dry", get_duration_seconds(c_fs, src), None,
                         None, dst \in DOMAIN c_fs, FALSE))
    /\ converted' = converted + 1
    /\ deleted' = IF ~c_args.keep THEN deleted + 1 ELSE deleted
    /\ to_process' = Tail(to_process)
    /\ UNCHANGED <<c_fs, c_env, c_args, c_pc, skipped, c_errors>>
    /\ UNCHANGED <<uvars, rvars, fvars>>

\* lines 127-131
CvConvertFailed ==
    /\ c_pc = "loop" /\ to_process # <<>>
    /\ LET src == Head(to_process)
           dst == with_suffix(src, S_wav)
       IN  /\ ~(dst \in DOMAIN c_fs /\ ~c_args.overwrite)
           /\ ~c_args.dry_run
           /\ \E rc \in {0, 1}, wrote \in BOOLEAN, out \in Durations :
                LET r == ffmpeg(c_fs, dst, rc, wrote, out)
                IN  /\ ~r.ok
                    /\ c_fs' = r.fs
                    /\ c_hist' = Append(c_hist,
                          CvEvent(src, "error", get_duration_seconds(c_fs, src),
                                  None, rc, dst \in DOMAIN r.fs, FALSE))
    /\ c_errors' = c_errors + 1
    /\ to_process' = Tail(to_process)
    /\ UNCHANGED <<c_env, c_args, c_pc, converted, deleted, skipped>>
    /\ UNCHANGED <<uvars, rvars, fvars>>

\* lines 133-140
CvDurationMismatch ==
    /\ c_pc = "loop" /\ to_process # <<>>
    /\ LET src == Head(to_process)
           dst == with_suffix(src, S_wav)
       IN  /\ ~(dst \in DOMAIN c_fs /\ ~c_args.overwrite)
           /\ ~c_args.dry_run
           /\ \E rc \in {0, 1}, wrote \in BOOLEAN, out \in Durations :
                LET r == ffmpeg(c_fs, dst, rc, wrote, out)
                    in_dur  == get_duration_seconds(c_fs, src)
                    out_dur == get_duration_seconds(r.fs, dst)
                IN  /\ r.ok
                    /\ duration_mismatch(in_dur, out_dur)
                    /\ c_fs' = r.fs
                    /\ c_hist' = Append(c_hist,
                          CvEvent(src, "mismatch", in_dur, out_dur, rc, TRUE,
                                  FALSE))
    /\ skipped' = skipped + 1
    /\ to_process' = Tail(to_process)
    /\ UNCHANGED <<c_env, c_args, c_pc, converted, deleted, c_errors>>
    /\ UNCHANGED <<uvars, rvars, fvars>>

\* lines 142-151: src.unlink() may raise
CvConverted ==
    /\ c_pc = "loop" /\ to_process # <<>>
    /\ LET src == Head(to_process)
           dst == with_suffix(src, S_wav)
       IN  /\ ~(dst \in DOMAIN c_fs /\ ~c_args.overwrite)
           /\ ~c_args.dry_run
           /\ \E rc \in {0, 1}, wrote \in BOOLEAN, out \in Durations,
                 unlinks \in BOOLEAN :
                LET r == ffmpeg(c_fs, dst, rc, wrote, out)
                    in_dur  == get_duration_seconds(c_fs, src)
                    out_dur == get_duration_seconds(r.fs, dst)
                    gone    == ~c_args.keep /\ unlinks
                IN  /\ r.ok
                    /\ ~duration_mismatch(in_dur, out_dur)
                    /\ c_fs' = IF gone
                               THEN [q \in DOMAIN r.fs \ {src} |-> r.fs[q]]
                               ELSE r.fs
                    /\ deleted' = IF gone THEN deleted + 1 ELSE deleted
                    /\ c_errors' = IF ~c_args.keep /\ ~unlinks
                                   THEN c_errors + 1 ELSE c_errors
                    /\ c_hist' = Append(c_hist,
                          CvEvent(src, "converted", in_dur, out_dur, rc, TRUE,
                                  gone))
    /\ converted' = converted + 1
    /\ to_process' = Tail(to_process)
    /\ UNCHANGED <<c_env, c_args, c_pc, skipped>>
    /\ UNCHANGED <<uvars, rvars, fvars>>

\* lines 153-157
CvSummary ==
    /\ c_pc = "loop" /\ to_process = <<>>
    /\ c_pc' = "done"
    /\ UNCHANGED <<c_fs, c_env, c_args, to_process, converted, deleted,
                   skipped, c_errors, c_hist>>
    /\ UNCHANGED <<uvars, rvars, fvars>>

N_a_mp3 == <<"a", ".", "m", "p", "3">>
N_b_MP3 == <<"b", ".", "M", "P", "3">>
N_a_wav == <<"a", ".", "w", "a", "v">>
N_a_flac == <<"a", ".", "f", "l", "a", "c">>

\* the trees: each file is there or not, with a duration ffprobe reports
ConvertTrees ==
    { t \in UNION { [S -> Durations] :
                      S \in SUBSET {N_a_mp3, N_b_MP3, N_a_wav, N_a_flac, N_c_txt} } :
        /\ N_b_MP3 \in DOMAIN t => t[N_b_MP3] = 2
        /\ N_a_wav \in DOMAIN t => t[N_a_wav] = 3
        /\ N_a_flac \in DOMAIN t => t[N_a_flac] = None
        /\ N_c_txt \in DOMAIN t => t[N_c_txt] = None }

InitConvert ==
    /\ c_fs \in ConvertTrees
    /\ c_env \in [ffmpeg : BOOLEAN, ffprobe : BOOLEAN, root : BOOLEAN]
    /\ c_args \in [keep : BOOLEAN, overwrite : BOOLEAN, dry_run : BOOLEAN]
    /\ c_pc = "start"
    /\ to_process = <<>>
    /\ converted = 0 /\ deleted = 0 /\ skipped = 0 /\ c_errors = 0
    /\ c_hist = <<>>
    /\ IdleUnzip /\ IdleRename /\ IdleFlatten

NextConvert ==
    \/ CvMissingTool
    \/ CvMissingRoot
    \/ CvScan
    \/ CvSkipExisting
    \/ CvDryRun
    \/ CvConvertFailed
    \/ CvDurationMismatch
    \/ CvConverted
    \/ CvSummary

SpecConvert == InitConvert /\ [][NextConvert]_vars

\* C7: an original is deleted only if its conversion succeeded: neither
\* --keep nor --dry-run, ffmpeg exited 0 and the .wav exists, and the two
\* durations, when both are known, differ by at most 1.0 second; in every
\* other case the original is still there after the run.
C7_DeletedOnlyIfConverted ==
    \A i \in 1..Len(c_hist) :
        LET e == c_hist[i]
            succeeded ==
                /\ ~c_args.keep /\ ~c_args.dry_run
                /\ e.outcome \in {"converted", "mismatch"}
                /\ e.rc = 0 /\ e.dst_exists
                /\ (e.in_dur # None /\ e.out_dur # None)
                      => abs(e.in_dur - e.out_dur) <= TOLERANCE
        IN  ~succeeded => ~e.unlinked /\ e.src \in DOMAIN c_fs

-----------------------------------------------------------------------------
(* scripts/rename.py *)

MAX_FILENAME == 42

S_ROM == <<"R", "O", "M">>

Space     == {" "}
SafeChars == Letters \cup Digits \cup {" ", ".", "_", "-"}
Unsafe    == { Ascii[i] : i \in 1..Len(Ascii) } \ SafeChars
TrimChars == {" ", ".", "-", "_"}

\* the index of the first c of s from index i on, 0 when there is none
RECURSIVE find(_, _, _)
find(s, c, i) ==
    IF i > Len(s) THEN 0
    ELSE IF s[i] = c THEN i
    ELSE find(s, c, i + 1)

\* t in s
contains(s, t) == \E i \in 1..(Len(s) - Len(t) + 1) : SubSeq(s, i, i + Len(t) - 1) = t

\* the length of the run of characters of class C that ends just before j
RECURSIVE run_before(_, _, _)
run_before(s, C, j) ==
    IF j > 1 /\ s[j - 1] \in C THEN 1 + run_before(s, C, j - 1) ELSE 0

\* the length of the run of characters of class C that starts at i
RECURSIVE run_from(_, _, _)
run_from(s, C, i) ==
    IF i <= Len(s) /\ s[i] \in C THEN 1 + run_from(s, C, i + 1) ELSE 0

\* BRACKETS.sub("", s), BRACKETS = r"\s*\[[^\]]*\]"
RECURSIVE sub_BRACKETS(_)
sub_BRACKETS(s) ==
    LET j == find(s, "[", 1)
        e == IF j = 0 THEN 0 ELSE find(s, "]", j + 1)
    IN  IF e = 0 THEN s
        ELSE SubSeq(s, 1, j - 1 - run_before(s, Space, j))
             \o sub_BRACKETS(SubSeq(s, e + 1, Len(s)))

\* the literal alternatives of PARENS_WITH_TAGS (re.IGNORECASE)
TagWords == {
    <<"u", "s", "a">>, <<"j", "a", "p", "a", "n">>, <<"w", "o", "r", "l", "d">>,
    <<"e", "u", "r", "o", "p", "e">>, <<"p", "a", "l">>, <<"n", "t", "s", "c">>,
    <<"j", "p", "n">>, <<"u">>, <<"e">>,
    <<"e", "n", "g">>, <<"e", "n">>, <<"f", "r">>,
    <<"d", "e">>, <<"e", "s">>, <<"i", "t">>,
    <<"n", "l">>, <<"p", "t">>, <<"s", "v">>,
    <<"n", "o">>, <<"j", "a">>, <<"r", "e", "v">>,
    <<"p", "r", "o", "t", "o">>, <<"b", "e", "t", "a">>, <<"u", "n", "l">>,
    <<"a", "r", "c", "a", "d", "e">>, <<"d", "e", "m", "o">>, <<"s", "a", "m", "p", "l", "e">> }

\* one of the alternatives of PARENS_WITH_TAGS occurs in the text
has_tag(text) ==
    LET t == lower(text)
    IN  \/ \E w \in TagWords : contains(t, w)
        \* Alt\s*\d+
        \/ \E i \in 1..(Len(t) - 2) :
              /\ SubSeq(t, i, i + 2) = <<"a", "l", "t">>
              /\ LET k == i + 3 + run_from(t, Space, i + 3)
                 IN  k <= Len(t) /\ t[k] \in Digits
        \* v\d+(?:\.\d+)?
        \/ \E i \in 1..(Len(t) - 1) : t[i] = "v" /\ t[i + 1] \in Digits
        \* (?:[A-Z]{2})(?:,[A-Z]{2})+
        \/ \E i \in 1..(Len(t) - 4) :
              /\ t[i] \in Letters /\ t[i + 1] \in Letters /\ t[i + 2] = ","
              /\ t[i + 3] \in Letters /\ t[i + 4] \in Letters

\* PARENS_WITH_TAGS.sub("", s): \s*\( [^)]* tag [^)]* \)
RECURSIVE sub_PARENS_WITH_TAGS(_)
sub_PARENS_WITH_TAGS(s) ==
    LET j == find(s, "(", 1)
        e == IF j = 0 THEN 0 ELSE find(s, ")", j + 1)
    IN  IF e = 0 THEN s
        ELSE IF has_tag(SubSeq(s, j + 1, e - 1))
        THEN SubSeq(s, 1, j - 1 - run_before(s, Space, j))
             \o sub_PARENS_WITH_TAGS(SubSeq(s, e + 1, Len(s)))
        ELSE SubSeq(s, 1, e) \o sub_PARENS_WITH_TAGS(SubSeq(s, e + 1, Len(s)))

\* re.sub(r"\(\s*\)|\[\s*\]", "", s)
RECURSIVE sub_empty_pairs(_)
sub_empty_pairs(s) ==
    IF s = <<>> THEN s
    ELSE LET k == 2 + run_from(s, Space, 2)
         IN  IF /\ k <= Len(s)
                /\ \/ s[1] = "(" /\ s[k] = ")"
                   \/ s[1] = "[" /\ s[k] = "]"
             THEN sub_empty_pairs(SubSeq(s, k + 1, Len(s)))
             ELSE <<s[1]>> \o sub_empty_pairs(Tail(s))

\* re.sub of every run of at least k characters of class C by one space
RECURSIVE sub_runs(_, _, _)
sub_runs(s, C, k) ==
    IF s = <<>> THEN s
    ELSE LET r == run_from(s, C, 1)
         IN  IF r >= k THEN <<" ">> \o sub_runs(SubSeq(s, r + 1, Len(s)), C, k)
             ELSE IF r > 0
             THEN SubSeq(s, 1, r) \o sub_runs(SubSeq(s, r + 1, Len(s)), C, k)
             ELSE <<s[1]>> \o sub_runs(Tail(s), C, k)

\* str.rstrip(chars), str.strip(chars)
rstrip(s, C) == SubSeq(s, 1, Len(s) - run_before(s, C, Len(s) + 1))
strip(s, C) ==
    LET t == rstrip(s, C)
    IN  SubSeq(t, run_from(t, C, 1) + 1, Len(t))

tidy_base(name) ==
    LET n1 == sub_BRACKETS(name)
        n2 == sub_PARENS_WITH_TAGS(n1)
        n3 == sub_empty_pairs(n2)
        n4 == sub_runs(n3, Unsafe, 1)
        n5 == sub_runs(n4, {",", "/"}, 1)
        n6 == sub_runs(n5, {"-", "_"}, 2)
        n7 == sub_runs(n6, Space, 2)
        n8 == strip(n7, TrimChars)
    IN  IF n8 = <<>> THEN S_ROM ELSE n8

max(a, b) == IF a >= b THEN a ELSE b

\* s[:n] of Python, for n >= 0
prefix(s, n) == SubSeq(s, 1, IF n < Len(s) THEN n ELSE Len(s))

enforce_length(base, ext) ==
    LET allowed == max(1, MAX_FILENAME - Len(ext))
        cut     == prefix(base, allowed)
        sp      == rfind(cut, " ")
        word    == rstrip(SubSeq(cut, 1, sp - 1), TrimChars)
        trimmed == IF sp > 0
                   THEN IF word = <<>> THEN rstrip(cut, TrimChars) ELSE word
                   ELSE rstrip(cut, TrimChars)
    IN  IF Len(base) <= allowed THEN base
        ELSE IF trimmed = <<>> THEN S_ROM ELSE trimmed

\* the loop of unique_path of rename.py, from suffix i on
RECURSIVE rename_unique_path_from(_, _, _, _)
rename_unique_path_from(names, base, ext, i) ==
    LET sfx     == <<"_">> \o str(i)
        allowed == max(1, MAX_FILENAME - Len(ext) - Len(sfx))
        b       == rstrip(prefix(base, allowed), TrimChars)
        b2      == IF b = <<>> THEN S_ROM ELSE b
        candidate == b2 \o sfx \o ext
    IN  IF candidate \notin names THEN candidate
        ELSE rename_unique_path_from(names, base, ext, i + 1)

\* unique_path of rename.py, in a directory that holds names
rename_unique_path(names, base, ext) ==
    IF (base \o ext) \notin names THEN base \o ext
    ELSE rename_unique_path_from(names, base, ext, 1)

\* lines 84-90: the name the loop body renames fname to
new_name(names, fname) ==
    LET be == splitext(fname)
        b1 == enforce_length(tidy_base(be[1]), be[2])
        b2 == strip(b1, TrimChars)
    IN  rename_unique_path(names, IF b2 = <<>> THEN S_ROM ELSE b2, be[2])

\* line 82: os.walk lists the directory
RnList ==
    /\ r_pc = "walk"
    /\ r_files' = r_fs
    /\ count' = 0
    /\ r_pc' = "loop"
    /\ UNCHANGED <<r_fs, r_hist>>
    /\ UNCHANGED <<uvars, cvars, fvars>>

\* lines 83-97: the files are met in the order the listing gave; os.rename
\* may raise
RnFile ==
    /\ r_pc = "loop"
    /\ \E fname \in r_files, renames \in BOOLEAN :
          LET new == new_name(r_fs, fname)
              ok  == fname # new /\ renames
          IN  /\ r_fs' = IF ok THEN (r_fs \ {fname}) \cup {new} ELSE r_fs
              /\ count' = IF ok THEN count + 1 ELSE count
              /\ r_hist' = Append(r_hist, [old |-> fname, new |-> new, ok |-> ok])
              /\ r_files' = r_files \ {fname}
    /\ UNCHANGED r_pc
    /\ UNCHANGED <<uvars, cvars, fvars>>

\* line 99
RnDone ==
    /\ r_pc = "loop" /\ r_files = {}
    /\ r_pc' = "done"
    /\ UNCHANGED <<r_fs, r_files, count, r_hist>>
    /\ UNCHANGED <<uvars, cvars, fvars>>

\* n times the character c
Rep(c, n) == [i \in 1..n |-> c]

\* the longest run of letters after a name's prefix, the longest extension
MaxStem == 3
MaxExt  == 43

Prefixes == {
    <<"a", "b">>,
    <<"a", " ", "b", " ", "[", "!", "]">>,
    <<"(", "U", ")", " ", "a", "-", "-", "b", "!", "c">>,
    <<"[", "x", "]">> }

\* prefix, n letters, and an extension of m characters after its dot (none
\* at all for m = 0)
FileName(pre, n, m) ==
    pre \o Rep("a", n) \o (IF m = 0 THEN <<>> ELSE <<".">> \o Rep("x", m - 1))

InitRename ==
    /\ \E n \in 0..MaxStem, m \in 0..MaxExt :
          \E P \in SUBSET Prefixes :
              /\ Cardinality(P) \in {1, 2}
              /\ r_fs = { FileName(pre, n, m) : pre \in P }
    /\ r_pc = "walk"
    /\ r_files = {} /\ count = 0 /\ r_hist = <<>>
    /\ IdleUnzip /\ IdleConvert /\ IdleFlatten

NextRename ==
    \/ RnList
    \/ RnFile
    \/ RnDone

SpecRename == InitRename /\ [][NextRename]_vars

\* C8: every name a file is renamed to has at most MAX_FILENAME characters.
C8_NamesWithinLimit ==
    \A i \in 1..Len(r_hist) :
        r_hist[i].ok => Len(r_hist[i].new) <= MAX_FILENAME

-----------------------------------------------------------------------------
(* scripts/flatten_to_root.py *)

\* os.path.basename(__file__)
script_name == <<"f", "l", "a", "t", "t", "e", "n", "_", "t", "o", "_", "r", "o", "o", "t", ".", "p", "y">>

S_venv == <<"v", "e", "n", "v">>

\* the text of an absolute path: its components, each after a separator
RECURSIVE path_text(_)
path_text(p) ==
    IF p = <<>> THEN <<>> ELSE <<"/">> \o Head(p) \o path_text(Tail(p))

\* the loop of unique_path of flatten_to_root.py, from suffix i on
RECURSIVE flatten_unique_path_from(_, _, _, _, _)
flatten_unique_path_from(f, d, base, ext, i) ==
    LET candidate == <<base \o <<"_">> \o str(i) \o ext>>
    IN  IF ~exists(f, d, candidate) THEN candidate
        ELSE flatten_unique_path_from(f, d, base, ext, i + 1)

\* unique_path of flatten_to_root.py; dest_dir is the root, the path <<>>
flatten_unique_path(f, d, filename) ==
    LET be == splitext(filename)
    IN  IF ~exists(f, d, <<filename>>) THEN <<filename>>
        ELSE flatten_unique_path_from(f, d, be[1], be[2], 1)

\* line 29: the directory os.walk yielded is passed over
skipped_dir(dp) == dp = <<>> \/ contains(path_text(f_root \o dp), S_venv)

\* line 32
skipped_file(file) == startswith(file, <<".">>) \/ file = script_name

\* lines 23-27
FlStart ==
    /\ f_pc = "start"
    /\ f_pc' = "walk"
    /\ total' = 0
    /\ f_stack' = << <<>> >>
    /\ UNCHANGED <<f_fs, f_dirs, f_root, f_dirpath, f_files, f_fs0>>
    /\ UNCHANGED <<uvars, cvars, rvars>>

\* lines 27-30: os.walk yields the next directory, top-down, its entries in
\* the order os.scandir gave them
FlEnterDir ==
    /\ f_pc = "walk" /\ f_files = {} /\ f_stack # <<>>
    /\ LET top == Head(f_stack)
       IN  /\ f_dirpath' = top
           /\ f_files' = IF skipped_dir(top) THEN {} ELSE ListFiles(f_fs, top)
           /\ \E o \in Orders(ListDirs(f_dirs, top)) :
                  f_stack' = o \o Tail(f_stack)
    /\ UNCHANGED <<f_fs, f_dirs, f_root, f_pc, total, f_fs0>>
    /\ UNCHANGED <<uvars, cvars, rvars>>

\* lines 32-33
FlSkipFile ==
    /\ f_pc = "walk"
    /\ \E file \in f_files :
          /\ skipped_file(file)
          /\ f_files' = f_files \ {file}
    /\ UNCHANGED <<f_fs, f_dirs, f_root, f_pc, f_stack, f_dirpath, total, f_fs0>>
    /\ UNCHANGED <<uvars, cvars, rvars>>

\* lines 34-41: shutil.move may raise
FlMoveFile ==
    /\ f_pc = "walk"
    /\ \E file \in f_files, moves \in BOOLEAN :
          LET src  == f_dirpath \o <<file>>
              dest == flatten_unique_path(f_fs, f_dirs, file)
          IN  /\ ~skipped_file(file)
              /\ f_files' = f_files \ {file}
              /\ IF moves
                 THEN /\ f_fs' = write(remove(f_fs, src), dest, f_fs[src])
                      /\ total' = total + 1
                 ELSE UNCHANGED <<f_fs, total>>
    /\ UNCHANGED <<f_dirs, f_root, f_pc, f_stack, f_dirpath, f_fs0>>
    /\ UNCHANGED <<uvars, cvars, rvars>>

\* line 43
FlDone ==
    /\ f_pc = "walk" /\ f_files = {} /\ f_stack = <<>>
    /\ f_pc' = "done"
    /\ UNCHANGED <<f_fs, f_dirs, f_root, f_stack, f_dirpath, f_files, total, f_fs0>>
    /\ UNCHANGED <<uvars, cvars, rvars>>

N_sub     == <<"s", "u", "b">>
N_deep    == <<"d", "e", "e", "p">>
N_git     == <<".", "g", "i", "t">>
N_x_txt   == <<"x", ".", "t", "x", "t">>
N_y_txt   == <<"y", ".", "t", "x", "t">>
N_hid     == <<".", "h", "i", "d">>
N_cfg     == <<"c", "f", "g">>
N_lib_py  == <<"l", "i", "b", ".", "p", "y">>
N_r       == <<"r">>
N_myvenv  == <<"m", "y", "v", "e", "n", "v">>

\* the files a tree is drawn from, each with a content of its own
FlattenMenu == <<
    <<N_x_txt>>,
    <<N_sub, N_x_txt>>,
    <<N_sub, N_y_txt>>,
    <<N_sub, N_hid>>,
    <<N_sub, script_name>>,
    <<N_sub, N_deep, N_x_txt>>,
    <<N_git, N_cfg>>,
    <<S_venv, N_lib_py>> >>

\* the most files of a tree
MaxFlat == 4

RECURSIVE FlattenTrees(_, _)
FlattenTrees(i, k) ==
    IF i > Len(FlattenMenu) \/ k = 0 THEN { <<>> }
    ELSE FlattenTrees(i + 1, k)
         \cup { write(t, FlattenMenu[i], i) : t \in FlattenTrees(i + 1, k - 1) }

InitFlatten ==
    /\ f_fs \in FlattenTrees(1, MaxFlat)
    /\ f_fs0 = f_fs
    /\ f_dirs = { <<>>, <<N_sub>>, <<N_sub, N_deep>>, <<N_git>>, <<S_venv>> }
    /\ f_root \in { <<N_r>>, <<N_myvenv>> }
    /\ f_pc = "start"
    /\ f_stack = <<>> /\ f_dirpath = <<>> /\ f_files = {} /\ total = 0
    /\ IdleUnzip /\ IdleConvert /\ IdleRename

NextFlatten ==
    \/ FlStart
    \/ FlEnterDir
    \/ FlSkipFile
    \/ FlMoveFile
    \/ FlDone

SpecFlatten == InitFlatten /\ [][NextFlatten]_vars

\* the file is under a venv directory or under a hidden folder
UnderVenvOrHidden(p) ==
    \E i \in 1..(Len(p) - 1) : p[i] = S_venv \/ startswith(p[i], <<".">>)

\* C9: a file under a venv directory or under a hidden folder is never moved,
\* and once flatten_to_root has returned every other non-hidden file of a
\* subfolder is in the root.
C9_VenvAndHiddenUntouched ==
    /\ \A p \in DOMAIN f_fs0 :
          UnderVenvOrHidden(p) => p \in DOMAIN f_fs /\ f_fs[p] = f_fs0[p]
    /\ f_pc = "done" =>
          \A p \in DOMAIN f_fs0 :
              (/\ Len(p) > 1 /\ ~UnderVenvOrHidden(p)
               /\ ~startswith(p[Len(p)], <<".">>))
              => /\ p \notin DOMAIN f_fs
                 /\ \E q \in DOMAIN f_fs : Len(q) = 1 /\ f_fs[q] = f_fs0[p]

=============================================================================
